---- MODULE Spec2Model ----
(***************************************************************************)
(* The two-pass Hack assembler of src/src/lib.rs.                         *)
(*                                                                         *)
(* A string is a sequence of one-character strings, so that slicing,       *)
(* searching, trimming, parsing and formatting are computed as the code    *)
(* computes them.  Option<T> is a sequence of length 0 (None) or 1 (Some). *)
(***************************************************************************)
EXTENDS Integers, Sequences, FiniteSets, TLC

VARIABLES
    lines,                \* Parser.lines
    current_instruction,  \* Parser.current_instruction
    symbols,              \* SymbolTable.symbols: name -> address
    bytecode,             \* HackAssembler.bytecode: the in-memory buffer
    output_file,          \* the output file: None until write_to_file
    pc,                   \* position of run()
    source,               \* history: Parser.lines as Parser::new returned it
    trace                 \* history: one record per iteration of the second loop

vars == <<lines, current_instruction, symbols, bytecode, output_file, pc, source, trace>>

(***************************************************************************)
(* Bounds                                                                  *)
(***************************************************************************)
MaxLines == 3

(***************************************************************************)
(* Option and string helpers                                               *)
(***************************************************************************)
None == <<>>
Some(x) == <<x>>
is_some(o) == Len(o) = 1
unwrap(o) == o[1]

\* line[start..end] of Rust, 0-based and half-open
Slice(s, start, end) == SubSeq(s, start + 1, end)

starts_with(s, c) == Len(s) > 0 /\ s[1] = c
ends_with(s, c) == Len(s) > 0 /\ s[Len(s)] = c

\* str::find(char): the 0-based index of the first occurrence
find(s, c) ==
    IF \E i \in 1..Len(s) : s[i] = c
    THEN Some((CHOOSE i \in 1..Len(s) : s[i] = c /\ \A j \in 1..(i - 1) : s[j] # c) - 1)
    ELSE None

\* str::trim_matches(&['(', ')']): every leading and trailing paren goes
trim_matches(s) ==
    LET paren(c) == c \in {"(", ")"}
        keep == {i \in 1..Len(s) : ~paren(s[i])}
    IN  IF keep = {} THEN <<>>
        ELSE LET lo == CHOOSE i \in keep : \A j \in keep : i <= j
                 hi == CHOOSE i \in keep : \A j \in keep : j <= i
             IN  SubSeq(s, lo, hi)

\* Vec::remove(index), index 0-based
remove(ls, index) == SubSeq(ls, 1, index) \o SubSeq(ls, index + 2, Len(ls))

(***************************************************************************)
(* i32: str::parse::<i32>() and format!("{:016b}", num)                    *)
(***************************************************************************)
I32Max == 2147483647
I32Min == (-2147483647) - 1

Digits == <<"0", "1", "2", "3", "4", "5", "6", "7", "8", "9">>
IsDigit(c) == \E d \in 1..10 : Digits[d] = c
DigitValue(c) == (CHOOSE d \in 1..10 : Digits[d] = c) - 1

\* the checked accumulation of from_str_radix: None on overflow
RECURSIVE parse_digits(_, _, _)
parse_digits(s, acc, negative) ==
    IF s = <<>> THEN Some(acc)
    ELSE IF ~IsDigit(s[1]) THEN None
    ELSE LET d == DigitValue(s[1])
         IN  IF negative
             THEN IF acc < (I32Min + d + 9) \div 10 THEN None
                  ELSE parse_digits(Tail(s), acc * 10 - d, negative)
             ELSE IF acc > (I32Max - d) \div 10 THEN None
                  ELSE parse_digits(Tail(s), acc * 10 + d, negative)

parse_i32(s) ==
    IF s = <<>> THEN None
    ELSE IF s[1] \in {"+", "-"}
         THEN IF Len(s) = 1 THEN None ELSE parse_digits(Tail(s), 0, s[1] = "-")
         ELSE parse_digits(s, 0, FALSE)

RECURSIVE to_binary(_)
to_binary(n) ==
    IF n < 2 THEN <<Digits[n + 1]>>
    ELSE to_binary(n \div 2) \o <<Digits[(n % 2) + 1]>>

RECURSIVE pad_zero(_, _)
pad_zero(s, width) == IF Len(s) >= width THEN s ELSE pad_zero(<<"0">> \o s, width)

\* {:016b}: at least 16 digits, more when the value needs them; a negative i32
\* prints as its 32-bit two's complement
format_016b(num) ==
    IF num >= 0 THEN pad_zero(to_binary(num), 16)
    ELSE <<"1">> \o pad_zero(to_binary((I32Max + num) + 1), 31)

(***************************************************************************)
(* Parser                                                                  *)
(***************************************************************************)
\* as has_more_lines, one line short
has_more_lines_mut(ls, cur) == Len(ls) > cur + 2

has_more_lines(ls, cur) == Len(ls) > cur + 1

instruction_type(ls, cur) ==
    IF cur < Len(ls)
    THEN LET line == ls[cur + 1]
         IN  IF starts_with(line, "@") THEN "A"
             ELSE IF starts_with(line, "(") /\ ends_with(line, ")") THEN "L"
             ELSE "C"
    ELSE "None"

\* as PredefinedNames, two digits of KBD exchanged
PredefinedNamesMut ==
    { <<<<"R", "0">>, <<"0">>>>, <<<<"R", "1">>, <<"1">>>>, <<<<"R", "2">>, <<"2">>>>,
      <<<<"R", "3">>, <<"3">>>>, <<<<"R", "4">>, <<"4">>>>, <<<<"R", "5">>, <<"5">>>>,
      <<<<"R", "6">>, <<"6">>>>, <<<<"R", "7">>, <<"7">>>>, <<<<"R", "8">>, <<"8">>>>,
      <<<<"R", "9">>, <<"9">>>>,
      <<<<"R", "1", "0">>, <<"1", "0">>>>, <<<<"R", "1", "1">>, <<"1", "1">>>>,
      <<<<"R", "1", "2">>, <<"1", "2">>>>, <<<<"R", "1", "3">>, <<"1", "3">>>>,
      <<<<"R", "1", "4">>, <<"1", "4">>>>, <<<<"R", "1", "5">>, <<"1", "5">>>>,
      <<<<"S", "C", "R", "E", "E", "N">>, <<"1", "6", "3", "8", "4">>>>,
      <<<<"K", "B", "D">>, <<"2", "4", "5", "6", "7">>>>,
      <<<<"S", "P">>, <<"0">>>>,
      <<<<"L", "C", "L">>, <<"1">>>>,
      <<<<"A", "R", "G">>, <<"2">>>>,
      <<<<"T", "H", "I", "S">>, <<"3">>>>,
      <<<<"T", "H", "A", "T">>, <<"4">>>> }

PredefinedNames ==
    { <<<<"R", "0">>, <<"0">>>>, <<<<"R", "1">>, <<"1">>>>, <<<<"R", "2">>, <<"2">>>>,
      <<<<"R", "3">>, <<"3">>>>, <<<<"R", "4">>, <<"4">>>>, <<<<"R", "5">>, <<"5">>>>,
      <<<<"R", "6">>, <<"6">>>>, <<<<"R", "7">>, <<"7">>>>, <<<<"R", "8">>, <<"8">>>>,
      <<<<"R", "9">>, <<"9">>>>,
      <<<<"R", "1", "0">>, <<"1", "0">>>>, <<<<"R", "1", "1">>, <<"1", "1">>>>,
      <<<<"R", "1", "2">>, <<"1", "2">>>>, <<<<"R", "1", "3">>, <<"1", "3">>>>,
      <<<<"R", "1", "4">>, <<"1", "4">>>>, <<<<"R", "1", "5">>, <<"1", "5">>>>,
      <<<<"S", "C", "R", "E", "E", "N">>, <<"1", "6", "3", "8", "4">>>>,
      <<<<"K", "B", "D">>, <<"2", "4", "5", "7", "6">>>>,
      <<<<"S", "P">>, <<"0">>>>,
      <<<<"L", "C", "L">>, <<"1">>>>,
      <<<<"A", "R", "G">>, <<"2">>>>,
      <<<<"T", "H", "I", "S">>, <<"3">>>>,
      <<<<"T", "H", "A", "T">>, <<"4">>>> }

\* as symbol, the closing paren of a label left in place
symbol_mut(ls, cur) ==
    LET line == ls[cur + 1]
        t == instruction_type(ls, cur)
    IN  IF t = "A"
        THEN LET name == Slice(line, 1, Len(line))
             IN  IF \E p \in PredefinedNames : p[1] = name
                 THEN Some((CHOOSE p \in PredefinedNames : p[1] = name)[2])
                 ELSE Some(name)
        ELSE IF t = "L" THEN Some(Slice(line, 1, Len(line)))
        ELSE None

symbol(ls, cur) ==
    LET line == ls[cur + 1]
        t == instruction_type(ls, cur)
    IN  IF t = "A"
        THEN LET name == Slice(line, 1, Len(line))
             IN  IF \E p \in PredefinedNames : p[1] = name
                 THEN Some((CHOOSE p \in PredefinedNames : p[1] = name)[2])
                 ELSE Some(name)
        ELSE IF t = "L" THEN Some(trim_matches(line))
        ELSE None

dest(ls, cur) ==
    LET line == ls[cur + 1]
    IN  IF instruction_type(ls, cur) = "C"
        THEN LET pos == find(line, "=")
             IN  IF is_some(pos) THEN Some(Slice(line, 0, unwrap(pos))) ELSE None
        ELSE None

\* the slice line[start..end] of comp() panics when ';' comes before '='
comp_slice_panics(ls, cur) ==
    LET line == ls[cur + 1]
        eq == find(line, "=")
        start == IF is_some(eq) THEN unwrap(eq) + 1 ELSE 0
        end == find(line, ";")
    IN  instruction_type(ls, cur) = "C" /\ is_some(end) /\ start > unwrap(end)

comp(ls, cur) ==
    LET line == ls[cur + 1]
    IN  IF instruction_type(ls, cur) = "C"
        THEN LET eq == find(line, "=")
                 start == IF is_some(eq) THEN unwrap(eq) + 1 ELSE 0
                 end == find(line, ";")
             IN  IF is_some(end)
                 THEN Some(Slice(line, start, unwrap(end)))
                 ELSE Some(Slice(line, start, Len(line)))
        ELSE None

jump(ls, cur) ==
    LET line == ls[cur + 1]
    IN  IF instruction_type(ls, cur) = "C"
        THEN LET start == find(line, ";")
             IN  IF is_some(start)
                 THEN Some(Slice(line, unwrap(start) + 1, Len(line)))
                 ELSE None
        ELSE None

(***************************************************************************)
(* Code: the three encoders.  A result is [panic, val]: panic! unwinds     *)
(* run() and no bit string is returned.                                    *)
(***************************************************************************)
Ok(v) == [panic |-> FALSE, val |-> v]
Panic == [panic |-> TRUE, val |-> <<>>]

lookup(table, key) ==
    IF \E e \in table : e[1] = key
    THEN Ok((CHOOSE e \in table : e[1] = key)[2])
    ELSE Panic

\* as DestTable, the bits of D and M exchanged
DestTableMut ==
    { <<<<"M">>, <<"0", "1", "0">>>>,
      <<<<"D">>, <<"0", "0", "1">>>>,
      <<<<"D", "M">>, <<"0", "1", "1">>>>,
      <<<<"A">>, <<"1", "0", "0">>>>,
      <<<<"A", "M">>, <<"1", "1", "0">>>>,
      <<<<"A", "D">>, <<"1", "0", "1">>>>,
      <<<<"A", "D", "M">>, <<"1", "1", "1">>>> }

DestTable ==
    { <<<<"M">>, <<"0", "0", "1">>>>,
      <<<<"D">>, <<"0", "1", "0">>>>,
      <<<<"D", "M">>, <<"0", "1", "1">>>>,
      <<<<"A">>, <<"1", "0", "0">>>>,
      <<<<"A", "M">>, <<"1", "0", "1">>>>,
      <<<<"A", "D">>, <<"1", "1", "0">>>>,
      <<<<"A", "D", "M">>, <<"1", "1", "1">>>> }

Code_dest(d) ==
    IF ~is_some(d) THEN Ok(<<"0", "0", "0">>) ELSE lookup(DestTable, unwrap(d))

JumpTable ==
    { <<<<"J", "G", "T">>, <<"0", "0", "1">>>>,
      <<<<"J", "E", "Q">>, <<"0", "1", "0">>>>,
      <<<<"J", "G", "E">>, <<"0", "1", "1">>>>,
      <<<<"J", "L", "T">>, <<"1", "0", "0">>>>,
      <<<<"J", "N", "E">>, <<"1", "0", "1">>>>,
      <<<<"J", "L", "E">>, <<"1", "1", "0">>>>,
      <<<<"J", "M", "P">>, <<"1", "1", "1">>>> }

\* as Code_jump, an unknown condition read as no jump
Code_jump_mut(j) ==
    IF ~is_some(j) \/ lookup(JumpTable, unwrap(j)).panic
    THEN Ok(<<"0", "0", "0">>)
    ELSE lookup(JumpTable, unwrap(j))

Code_jump(j) ==
    IF ~is_some(j) THEN Ok(<<"0", "0", "0">>) ELSE lookup(JumpTable, unwrap(j))

CompTable ==
    { <<<<"0">>, <<"0", "1", "0", "1", "0", "1", "0">>>>,
      <<<<"1">>, <<"0", "1", "1", "1", "1", "1", "1">>>>,
      <<<<"-", "1">>, <<"0", "1", "1", "1", "0", "1", "0">>>>,
      <<<<"D">>, <<"0", "0", "0", "1", "1", "0", "0">>>>,
      <<<<"A">>, <<"0", "1", "1", "0", "0", "0", "0">>>>,
      <<<<"!", "D">>, <<"0", "0", "0", "1", "1", "0", "1">>>>,
      <<<<"!", "A">>, <<"0", "1", "1", "0", "0", "1", "1">>>>,
      <<<<"-", "D">>, <<"0", "0", "0", "1", "1", "1", "1">>>>,
      <<<<"-", "A">>, <<"0", "1", "1", "0", "0", "1", "1">>>>,
      <<<<"D", "+", "1">>, <<"0", "0", "1", "1", "1", "1", "1">>>>,
      <<<<"A", "+", "1">>, <<"0", "1", "1", "0", "1", "1", "1">>>>,
      <<<<"D", "-", "1">>, <<"0", "0", "0", "1", "1", "1", "0">>>>,
      <<<<"A", "-", "1">>, <<"0", "1", "1", "0", "0", "1", "0">>>>,
      <<<<"D", "+", "A">>, <<"0", "0", "0", "0", "0", "1", "0">>>>,
      <<<<"D", "-", "A">>, <<"0", "0", "1", "0", "0", "1", "1">>>>,
      <<<<"A", "-", "D">>, <<"0", "0", "0", "0", "1", "1", "1">>>>,
      <<<<"D", "&", "A">>, <<"0", "0", "0", "0", "0", "0", "0">>>>,
      <<<<"D", "|", "A">>, <<"0", "0", "1", "0", "1", "0", "1">>>>,
      <<<<"M">>, <<"1", "1", "1", "0", "0", "0", "0">>>>,
      <<<<"!", "M">>, <<"1", "1", "1", "0", "0", "0", "1">>>>,
      <<<<"-", "M">>, <<"1", "1", "1", "0", "0", "1", "1">>>>,
      <<<<"M", "+", "1">>, <<"1", "1", "1", "0", "1", "1", "1">>>>,
      <<<<"M", "-", "1">>, <<"1", "1", "1", "0", "0", "1", "0">>>>,
      <<<<"D", "+", "M">>, <<"1", "0", "0", "0", "0", "1", "0">>>>,
      <<<<"D", "-", "M">>, <<"1", "0", "1", "0", "0", "1", "1">>>>,
      <<<<"M", "-", "D">>, <<"1", "0", "0", "0", "1", "1", "1">>>>,
      <<<<"D", "&", "M">>, <<"1", "0", "0", "0", "0", "0", "0">>>>,
      <<<<"D", "|", "M">>, <<"1", "0", "1", "0", "1", "0", "1">>>> }

Code_comp(c) ==
    IF ~is_some(c) THEN Panic ELSE lookup(CompTable, unwrap(c))

(***************************************************************************)
(* SymbolTable and HackAssembler                                           *)
(***************************************************************************)
SymbolTable_new == [x \in {} |-> 0]

contains(syms, name) == name \in DOMAIN syms

add_entry(syms, name, address) ==
    [x \in (DOMAIN syms) \cup {name} |-> IF x = name THEN address ELSE syms[x]]

get_address(syms, name) == IF name \in DOMAIN syms THEN Some(syms[name]) ELSE None

\* Err (nothing appended) unless the word is 16 characters long
add_bytecode(buf, word) ==
    IF Len(word) # 16 THEN buf ELSE (buf \o word) \o <<"\n">>

(***************************************************************************)
(* run(): one action per iteration of each loop                           *)
(***************************************************************************)
\* first loop, Some(Instruction::L): register the label, remove its line
Pass1Label ==
    /\ pc = "pass1"
    /\ instruction_type(lines, current_instruction) = "L"
    /\ symbols' = add_entry(symbols, unwrap(symbol(lines, current_instruction)),
                            current_instruction)
    /\ lines' = remove(lines, current_instruction)
    /\ pc' = IF has_more_lines(lines, current_instruction) THEN "pass1" ELSE "pass1_done"
    /\ UNCHANGED <<current_instruction, bytecode, output_file, source, trace>>

\* first loop, any other line (or none): advance, or leave the loop
Pass1Other ==
    /\ pc = "pass1"
    /\ instruction_type(lines, current_instruction) # "L"
    /\ IF ~has_more_lines(lines, current_instruction)
       THEN pc' = "pass1_done" /\ UNCHANGED current_instruction
       ELSE pc' = "pass1" /\ current_instruction' = current_instruction + 1
    /\ UNCHANGED <<lines, symbols, bytecode, output_file, source, trace>>

\* parser.current_instruction = 0
ResetParser ==
    /\ pc = "pass1_done"
    /\ current_instruction' = 0
    /\ pc' = "pass2"
    /\ UNCHANGED <<lines, symbols, bytecode, output_file, source, trace>>

\* the end of an iteration of the second loop
Pass2Continue ==
    IF ~has_more_lines(lines, current_instruction)
    THEN pc' = "write" /\ UNCHANGED current_instruction
    ELSE pc' = "pass2" /\ current_instruction' = current_instruction + 1

\* second loop, Some(Instruction::A): the Result of add_bytecode is dropped
Pass2A ==
    /\ pc = "pass2"
    /\ instruction_type(lines, current_instruction) = "A"
    /\ LET num == parse_i32(unwrap(symbol(lines, current_instruction)))
       IN  IF is_some(num)
           THEN LET binary == format_016b(unwrap(num))
                IN  /\ bytecode' = add_bytecode(bytecode, binary)
                    /\ trace' = Append(trace, [at |-> current_instruction,
                                               word |-> Some(binary)])
           ELSE \* println!("Unknown yet")
                /\ bytecode' = bytecode
                /\ trace' = Append(trace, [at |-> current_instruction, word |-> None])
    /\ Pass2Continue
    /\ UNCHANGED <<lines, symbols, output_file, source>>

\* second loop, Some(Instruction::C): a panic of an encoder unwinds run()
Pass2C ==
    /\ pc = "pass2"
    /\ instruction_type(lines, current_instruction) = "C"
    /\ LET c == IF comp_slice_panics(lines, current_instruction) THEN Panic
                ELSE Code_comp(comp(lines, current_instruction))
           d == Code_dest(dest(lines, current_instruction))
           j == Code_jump(jump(lines, current_instruction))
       IN  IF c.panic \/ d.panic \/ j.panic
           THEN /\ pc' = "panicked"
                /\ UNCHANGED <<current_instruction, bytecode, trace>>
           ELSE LET binary == ((<<"1", "1", "1">> \o c.val) \o d.val) \o j.val
                IN  /\ bytecode' = add_bytecode(bytecode, binary)
                    /\ trace' = Append(trace, [at |-> current_instruction,
                                               word |-> Some(binary)])
                    /\ Pass2Continue
    /\ UNCHANGED <<lines, symbols, output_file, source>>

\* second loop, the arm _ => ()
Pass2Other ==
    /\ pc = "pass2"
    /\ instruction_type(lines, current_instruction) \notin {"A", "C"}
    /\ trace' = Append(trace, [at |-> current_instruction, word |-> None])
    /\ Pass2Continue
    /\ UNCHANGED <<lines, symbols, bytecode, output_file, source>>

\* assembler.write_to_file()
WriteToFile ==
    /\ pc = "write"
    /\ output_file' = Some(bytecode)
    /\ pc' = "done"
    /\ UNCHANGED <<lines, current_instruction, symbols, bytecode, source, trace>>

Next ==
    \/ Pass1Label
    \/ Pass1Other
    \/ ResetParser
    \/ Pass2A
    \/ Pass2C
    \/ Pass2Other
    \/ WriteToFile

(***************************************************************************)
(* The inputs: normalized line sequences (no empty line, no comment)       *)
(***************************************************************************)
\* the mnemonics and predefined names of the instruction set
DestMnemonics ==
    { <<"M">>, <<"D">>, <<"D", "M">>, <<"A">>, <<"A", "M">>, <<"A", "D">>,
      <<"A", "D", "M">> }

JumpMnemonics ==
    { <<"J", "G", "T">>, <<"J", "E", "Q">>, <<"J", "G", "E">>,
      <<"J", "L", "T">>, <<"J", "N", "E">>, <<"J", "L", "E">>,
      <<"J", "M", "P">> }

CompMnemonics ==
    { <<"0">>, <<"1">>, <<"-", "1">>, <<"D">>, <<"A">>, <<"!", "D">>,
      <<"!", "A">>, <<"-", "D">>, <<"-", "A">>, <<"D", "+", "1">>,
      <<"A", "+", "1">>, <<"D", "-", "1">>, <<"A", "-", "1">>,
      <<"D", "+", "A">>, <<"D", "-", "A">>, <<"A", "-", "D">>,
      <<"D", "&", "A">>, <<"D", "|", "A">>, <<"M">>, <<"!", "M">>,
      <<"-", "M">>, <<"M", "+", "1">>, <<"M", "-", "1">>, <<"D", "+", "M">>,
      <<"D", "-", "M">>, <<"M", "-", "D">>, <<"D", "&", "M">>,
      <<"D", "|", "M">> }

PredefinedAddress ==
    { <<<<"R", "0">>, 0>>,
      <<<<"R", "1">>, 1>>,
      <<<<"R", "2">>, 2>>,
      <<<<"R", "3">>, 3>>,
      <<<<"R", "4">>, 4>>,
      <<<<"R", "5">>, 5>>,
      <<<<"R", "6">>, 6>>,
      <<<<"R", "7">>, 7>>,
      <<<<"R", "8">>, 8>>,
      <<<<"R", "9">>, 9>>,
      <<<<"R", "1", "0">>, 10>>,
      <<<<"R", "1", "1">>, 11>>,
      <<<<"R", "1", "2">>, 12>>,
      <<<<"R", "1", "3">>, 13>>,
      <<<<"R", "1", "4">>, 14>>,
      <<<<"R", "1", "5">>, 15>>,
      <<<<"S", "C", "R", "E", "E", "N">>, 16384>>,
      <<<<"K", "B", "D">>, 24576>>,
      <<<<"S", "P">>, 0>>,
      <<<<"L", "C", "L">>, 1>>,
      <<<<"A", "R", "G">>, 2>>,
      <<<<"T", "H", "I", "S">>, 3>>,
      <<<<"T", "H", "A", "T">>, 4>> }

\* strings outside the tables
BadDest == { <<"M", "D">>, <<"Q">> }
BadJump == { <<"J", "X", "X">>, <<>> }
BadComp == { <<"Q">>, <<"D", "+", "D">>, <<>> }

\* dest=comp;jump, each of dest and jump present or not
CLine(d, c, j) ==
    ((IF is_some(d) THEN unwrap(d) \o <<"=">> ELSE <<>>) \o c)
        \o (IF is_some(j) THEN <<";">> \o unwrap(j) ELSE <<>>)

ALine(name) == <<"@">> \o name
LLine(name) == (<<"(">> \o name) \o <<")">>

\* every combination of a dest, a comp and a jump, one instruction each
FieldPrograms ==
    { <<CLine(d, c, j)>> :
        d \in {None} \cup {Some(x) : x \in DestMnemonics \cup BadDest},
        c \in CompMnemonics \cup BadComp,
        j \in {None} \cup {Some(x) : x \in JumpMnemonics \cup BadJump} }
    \ { <<(<<>>)>> }

\* every predefined name, alone and with a label or a variable of that name
PredefinedPrograms ==
    UNION { { <<ALine(p[1])>>,
              <<LLine(p[1]), ALine(p[1])>>,
              <<ALine(<<"i">>), ALine(p[1]), LLine(p[1])>>,
              <<ALine(p[1]), LLine(p[1]), ALine(p[1])>> } : p \in PredefinedAddress }

\* the lines of the small programs
Pool ==
    { ALine(<<"2">>), ALine(<<"i">>), ALine(<<"j">>), ALine(<<"L">>),
      LLine(<<"L">>), LLine(<<"K">>),
      ALine(<<"6", "5", "5", "3", "6">>), ALine(<<"-", "1">>),
      CLine(Some(<<"D">>), <<"A">>, None), CLine(None, <<"0">>, Some(<<"J", "M", "P">>)),
      CLine(Some(<<"D">>), <<"Q">>, None), <<"D", ";", "=">> }

SmallPrograms == UNION { [1..n -> Pool] : n \in 0..MaxLines }

AddProgram ==
    << ALine(<<"2">>), CLine(Some(<<"D">>), <<"A">>, None),
       ALine(<<"3">>), CLine(Some(<<"D">>), <<"D", "+", "A">>, None),
       ALine(<<"0">>), CLine(Some(<<"M">>), <<"D">>, None) >>

LoopProgram ==
    << ALine(<<"i">>), CLine(Some(<<"M">>), <<"0">>, None),
       LLine(<<"L", "O", "O", "P">>),
       ALine(<<"i">>), CLine(Some(<<"M">>), <<"M", "+", "1">>, None),
       ALine(<<"L", "O", "O", "P">>), CLine(None, <<"0">>, Some(<<"J", "M", "P">>)) >>

\* numeric operands at and around 2^15 and 2^16
WideAddressPrograms ==
    { <<ALine(<<"3", "2", "7", "6", "7">>)>>,
      <<ALine(<<"3", "2", "7", "6", "8">>)>>,
      <<ALine(<<"2">>), ALine(<<"6", "5", "5", "3", "5">>)>>,
      <<ALine(<<"+", "4", "0", "0", "0", "0">>), CLine(Some(<<"D">>), <<"A">>, None)>> }

Programs ==
    SmallPrograms \cup FieldPrograms \cup PredefinedPrograms \cup WideAddressPrograms
        \cup {AddProgram, LoopProgram}

\* after HackAssembler::new, Parser::new and SymbolTable::new
Init ==
    /\ source \in Programs
    /\ lines = source
    /\ current_instruction = 0
    /\ symbols = SymbolTable_new
    /\ bytecode = <<>>
    /\ output_file = None
    /\ pc = "pass1"
    /\ trace = <<>>

Spec == Init /\ [][Next]_vars

TypeOK ==
    /\ pc \in {"pass1", "pass1_done", "pass2", "write", "done", "panicked"}
    /\ current_instruction \in 0..(MaxLines + 8)
    /\ Len(lines) <= Len(source)

(***************************************************************************)
(* What the claims speak of, stated apart from the code's own operators    *)
(***************************************************************************)
IsLabelLine(l) == Len(l) >= 2 /\ l[1] = "(" /\ l[Len(l)] = ")"
LabelName(l) == SubSeq(l, 2, Len(l) - 1)
IsAddressLine(l) == Len(l) >= 1 /\ l[1] = "@"
AddressName(l) == Tail(l)

\* the label-stripped line sequence
Stripped(src) == SelectSeq(src, LAMBDA l : ~IsLabelLine(l))

\* the number of non-label lines before position i (1-based) of src
RealLinesBefore(src, i) == Cardinality({k \in 1..(i - 1) : ~IsLabelLine(src[k])})

Pow2(n) == 2 ^ n

\* the 16-bit binary encoding of an address
Bin16(a) == [k \in 1..16 |-> IF (a \div Pow2(16 - k)) % 2 = 1 THEN "1" ELSE "0"]

RECURSIVE Decimal(_)
Decimal(n) == IF n < 10 THEN <<Digits[n + 1]>> ELSE Decimal(n \div 10) \o <<Digits[(n % 10) + 1]>>

IsNumeric(name) == name # <<>> /\ \A k \in 1..Len(name) : name[k] \in {Digits[d] : d \in 1..10}
IsPredefined(name) == \E p \in PredefinedAddress : p[1] = name
LabelsOf(src) == {LabelName(src[k]) : k \in {i \in 1..Len(src) : IsLabelLine(src[i])}}
DefinitionsOf(src, name) == {k \in 1..Len(src) : IsLabelLine(src[k]) /\ LabelName(src[k]) = name}

\* the k-th word (k from 0) of a buffer of 17-character records
WordAt(buf, k) == SubSeq(buf, 17 * k + 1, 17 * k + 16)
IsWord(w) == Len(w) = 16 /\ \A k \in 1..16 : w[k] \in {"0", "1"}

(***************************************************************************)
(* C1..C3: the output of a completed run                                   *)
(***************************************************************************)
\* C1: when run() completes, the output holds exactly one word per line of the
\* label-stripped sequence, in the order of those lines, each word 16
\* characters of 0 and 1 followed by a newline: the k-th iteration of the
\* second loop is at line k and its word is the k-th record of the output.
C1_OneWordPerInstruction ==
    pc = "done" =>
        LET out == unwrap(output_file)
            n == Len(Stripped(source))
        IN  /\ Len(out) = 17 * n
            /\ \A k \in 1..n :
                /\ IsWord(WordAt(out, k - 1))
                /\ out[17 * k] = "\n"
                /\ k <= Len(trace)
                /\ trace[k].at = k - 1
                /\ trace[k].word = Some(WordAt(out, k - 1))

\* the Address-Load lines of the stripped sequence that name a variable: not
\* numeric, not predefined, not a label
IsVariableRef(src, l) ==
    /\ IsAddressLine(l)
    /\ ~IsNumeric(AddressName(l))
    /\ ~IsPredefined(AddressName(l))
    /\ AddressName(l) \notin LabelsOf(src)

\* the variables first met at or before line i (1-based) of the stripped sequence
VariablesUpTo(src, i) ==
    {AddressName(Stripped(src)[k]) : k \in {j \in 1..i : IsVariableRef(src, Stripped(src)[j])}}

\* C2: the k-th distinct variable met in pass 2 is assigned address 16 + (k - 1)
\* and every Address-Load of it is emitted as the 16-bit encoding of that address.
C2_VariablesFromSixteen ==
    pc = "done" =>
        \A i \in 1..Len(Stripped(source)) :
            LET l == Stripped(source)[i]
            IN  IsVariableRef(source, l) =>
                    LET name == AddressName(l)
                        first == CHOOSE j \in 1..i :
                                    /\ Stripped(source)[j] = l
                                    /\ \A h \in 1..(j - 1) : Stripped(source)[h] # l
                        address == 16 + (Cardinality(VariablesUpTo(source, first)) - 1)
                    IN  /\ name \in DOMAIN symbols
                        /\ symbols[name] = address
                        /\ i <= Len(trace)
                        /\ trace[i].at = i - 1
                        /\ trace[i].word = Some(Bin16(address))

\* C3: for a label (L) of the program, the word emitted for an Address-Load @L,
\* before or after the definition, is the 16-bit encoding of the index in the
\* stripped sequence of the instruction that follows the (L) line.
C3_LabelReferenceResolved ==
    pc = "done" =>
        \A i \in 1..Len(Stripped(source)) :
            LET l == Stripped(source)[i]
            IN  (/\ IsAddressLine(l)
                 /\ Cardinality(DefinitionsOf(source, AddressName(l))) = 1
                 /\ ~IsPredefined(AddressName(l))
                 /\ ~IsNumeric(AddressName(l)))
                => LET def == CHOOSE k \in DefinitionsOf(source, AddressName(l)) : TRUE
                   IN  /\ i <= Len(trace)
                       /\ trace[i].at = i - 1
                       /\ trace[i].word = Some(Bin16(RealLinesBefore(source, def)))

(***************************************************************************)
(* C4: predefined names                                                    *)
(***************************************************************************)
C4_PredefinedStep ==
    \A p \in PredefinedAddress :
        (/\ pc = "pass2"
         /\ current_instruction < Len(lines)
         /\ lines[current_instruction + 1] = ALine(p[1]))
        => /\ symbol(lines, current_instruction) = Some(Decimal(p[2]))
           /\ bytecode' = (bytecode \o Bin16(p[2])) \o <<"\n">>

\* C4: for every predefined name, symbol() of an Address-Load of that name is
\* the decimal string of its fixed address and the instruction is emitted as the
\* 16-bit encoding of that address, whatever the symbol table holds.
C4_PredefinedFixed == [][C4_PredefinedStep]_vars

\* @KBD emitted as 24576 while the symbol table holds a label KBD
C4_Witness ==
    /\ Len(trace) > 0
    /\ <<"K", "B", "D">> \in DOMAIN symbols
    /\ lines[trace[Len(trace)].at + 1] = ALine(<<"K", "B", "D">>)
    /\ trace[Len(trace)].word = Some(Bin16(24576))
    /\ Len(bytecode) >= 17
    /\ SubSeq(bytecode, Len(bytecode) - 16, Len(bytecode) - 1) = Bin16(24576)

(***************************************************************************)
(* C5, C6: the encoders                                                    *)
(***************************************************************************)
\* the mnemonics of table that encode to the bit string bits
Decode(encode(_), domain, bits) == {m \in domain : encode(m) = Ok(bits)}

Injective(encode(_), domain, field) ==
    IF field \in domain
    THEN /\ ~encode(field).panic
         /\ Decode(encode, domain, encode(field).val) = {field}
    ELSE encode(field).panic

\* C5: on the fields of the Computation line at the cursor, each encoder is
\* injective on its domain (decoding the bit string gives back the mnemonic
\* and nothing else) and fails on every string outside it.
C5_EncodersInjective ==
    (/\ pc = "pass2"
     /\ instruction_type(lines, current_instruction) = "C"
     /\ ~comp_slice_panics(lines, current_instruction))
    => /\ Injective(Code_dest, {None} \cup {Some(m) : m \in DestMnemonics},
                    dest(lines, current_instruction))
       /\ Injective(Code_jump, {None} \cup {Some(m) : m \in JumpMnemonics},
                    jump(lines, current_instruction))
       /\ Injective(Code_comp, {Some(m) : m \in CompMnemonics},
                    comp(lines, current_instruction))

\* line i (0-based) of ls is a Computation with a field outside the tables
BadField(ls, i) ==
    /\ instruction_type(ls, i) = "C"
    /\ \/ (is_some(dest(ls, i)) /\ unwrap(dest(ls, i)) \notin DestMnemonics)
       \/ unwrap(comp(ls, i)) \notin CompMnemonics
       \/ (is_some(jump(ls, i)) /\ unwrap(jump(ls, i)) \notin JumpMnemonics)

BadLines(ls) == {i \in 0..(Len(ls) - 1) : BadField(ls, i)}

\* C6: when a Computation line of the stripped sequence has a field outside
\* the tables, the output file is never written and write_to_file is never
\* reached: pass 2 never moves past the first such line, and the panic is at it.
C6_BadFieldAborts ==
    BadLines(Stripped(source)) # {} =>
        /\ output_file = None
        /\ pc \notin {"write", "done"}
        /\ pc = "pass2" => \A i \in BadLines(Stripped(source)) : current_instruction <= i
        /\ pc = "panicked" =>
             /\ lines = Stripped(source)
             /\ current_instruction \in BadLines(lines)
             /\ \A i \in BadLines(lines) : current_instruction <= i

\* a panic after earlier instructions were encoded into the buffer
C6_Witness ==
    /\ pc = "panicked"
    /\ Len(bytecode) >= 17
    /\ output_file = None
    /\ BadLines(Stripped(source)) # {}

(***************************************************************************)
(* C7: the six-line program                                                *)
(***************************************************************************)
RECURSIVE OutputOf(_)
OutputOf(ws) == IF ws = <<>> THEN <<>> ELSE (Head(ws) \o <<"\n">>) \o OutputOf(Tail(ws))

ClaimedWords ==
    << <<"0", "0", "0", "0", "0", "0", "0", "0", "0", "0", "0", "0", "0", "0", "1", "0">>,
       <<"1", "1", "1", "0", "1", "1", "0", "0", "1", "0", "0", "1", "0", "0", "0", "0">>,
       <<"0", "0", "0", "0", "0", "0", "0", "0", "0", "0", "0", "0", "0", "0", "1", "1">>,
       <<"1", "1", "1", "0", "0", "0", "0", "0", "1", "0", "0", "1", "0", "0", "0", "0">>,
       <<"0", "0", "0", "0", "0", "0", "0", "0", "0", "0", "0", "0", "0", "0", "0", "0">>,
       <<"1", "1", "1", "0", "0", "0", "1", "1", "0", "0", "0", "0", "1", "0", "0", "0">> >>

AssembledWords ==
    << <<"0", "0", "0", "0", "0", "0", "0", "0", "0", "0", "0", "0", "0", "0", "1", "0">>,
       <<"1", "1", "1", "0", "1", "1", "0", "0", "0", "0", "0", "1", "0", "0", "0", "0">>,
       <<"0", "0", "0", "0", "0", "0", "0", "0", "0", "0", "0", "0", "0", "0", "1", "1">>,
       <<"1", "1", "1", "0", "0", "0", "0", "0", "1", "0", "0", "1", "0", "0", "0", "0">>,
       <<"0", "0", "0", "0", "0", "0", "0", "0", "0", "0", "0", "0", "0", "0", "0", "0">>,
       <<"1", "1", "1", "0", "0", "0", "1", "1", "0", "0", "0", "0", "1", "0", "0", "0">> >>

\* C7 as stated: the program @2, D=A, @3, D=D+A, @0, M=D assembles to the six
\* words 0000000000000010, 1110110010010000, 0000000000000011,
\* 1110000010010000, 0000000000000000, 1110001100001000.
C7_AsStated ==
    (pc = "done" /\ source = AddProgram) => unwrap(output_file) = OutputOf(ClaimedWords)

\* C7 amended: the same program assembles to the same words but for the second,
\* which is 1110110000010000 (comp A is 0110000, dest D is 010, no jump).
C7_AddProgram ==
    (pc = "done" /\ source = AddProgram) => unwrap(output_file) = OutputOf(AssembledWords)

C7_Witness == pc = "done" /\ source = AddProgram /\ Len(unwrap(output_file)) = 6 * 17

(***************************************************************************)
(* C8, C9: pass 1                                                          *)
(***************************************************************************)
\* C8: at the end of pass 1 every label defined exactly once is mapped to the
\* number of non-label lines before its definition.
C8_LabelAddresses ==
    pc # "pass1" =>
        \A name \in LabelsOf(source) :
            Cardinality(DefinitionsOf(source, name)) = 1 =>
                /\ name \in DOMAIN symbols
                /\ symbols[name] =
                       RealLinesBefore(source, CHOOSE k \in DefinitionsOf(source, name) : TRUE)

\* a label on the first line and another on the last, one instruction between
C8_Witness ==
    /\ pc = "pass1_done"
    /\ Len(source) = 3
    /\ IsLabelLine(source[1]) /\ ~IsLabelLine(source[2]) /\ IsLabelLine(source[3])
    /\ LabelName(source[1]) # LabelName(source[3])
    /\ symbols[LabelName(source[1])] = 0
    /\ symbols[LabelName(source[3])] = Len(lines)
    /\ Len(lines) = 1

C9_AfterPass1 ==
    pc # "pass1" =>
        /\ lines = Stripped(source)
        /\ \A i \in 0..Len(lines) : instruction_type(lines, i) # "L"
        /\ pc = "pass2" => current_instruction = Len(trace)
        /\ \A k \in 1..Len(trace) : trace[k].at = k - 1

\* each iteration of the first loop ends the loop or leaves fewer lines
\* after the cursor
C9_Pass1Step ==
    pc = "pass1" =>
        \/ pc' = "pass1_done"
        \/ (/\ pc' = "pass1"
            /\ Len(lines') - current_instruction' < Len(lines) - current_instruction)

\* C9: pass 1 terminates, leaving the original sequence without its label
\* lines, the others in order; the cursor is then reset to 0 (the k-th
\* iteration of pass 2 is at line k - 1), and in pass 2 the classifier reports
\* Label-Definition at no cursor position.
C9_Pass1Strips == []C9_AfterPass1 /\ [][C9_Pass1Step]_vars

\* pass 2 run to its end over a sequence that lost leading and trailing labels
C9_Witness ==
    /\ pc = "write"
    /\ Len(source) = 3
    /\ IsLabelLine(source[1]) /\ IsLabelLine(source[3])
    /\ Len(lines) = 1
    /\ Len(trace) = 1

(***************************************************************************)
(* C10: words of the wrong width                                           *)
(***************************************************************************)
\* C10: whenever pass 2 has produced a word that is not 16 characters long,
\* the run has aborted: it does not go on, and it writes no output.
C10_WrongWidthAborts ==
    (\E k \in 1..Len(trace) : is_some(trace[k].word) /\ Len(unwrap(trace[k].word)) # 16)
        => pc = "panicked"

(***************************************************************************)
(* C11: the leading bit of an Address-Load word                            *)
(***************************************************************************)
\* C11: every word appended to the output for an Address-Load instruction
\* (a word of 16 characters produced at an Address-Load line) has 0 as its
\* first character, for every numeric operand the parser accepts.
C11_AddressWordLeadingZero ==
    \A k \in 1..Len(trace) :
        (/\ trace[k].at < Len(lines)
         /\ IsAddressLine(lines[trace[k].at + 1])
         /\ is_some(trace[k].word)
         /\ Len(unwrap(trace[k].word)) = 16)
        => unwrap(trace[k].word)[1] = "0"

====
